---- MODULE Spec2Model ----
(* Model of web_worker (src/web/linux.rs): the capture pipeline made of    *)
(* the supervisor thread, the GTK main loop (control-channel handler and   *)
(* load-changed listener) and the debounce feeder thread.                  *)
EXTENDS Integers, Sequences, FiniteSets, TLC

VARIABLES
    targets,      \* targets.web_targets: sequence of "Url" / "Other"
    idx,          \* position of the supervisor's for loop in targets
    spc,          \* supervisor thread position
    ctrlc,        \* caught_ctrl_c
    exhausted,    \* targets_exhausted
    ctl,          \* glib channel (sender -> receiver): FIFO of GuiMessage
    attached,     \* receiver still attached to the main context
    dq,           \* delayed_gui channel: FIFO of PageReady
    dsAlive,      \* delayed_gui_sender (owned by the load-changed closure) alive
    fpc,          \* feeder thread position
    held,         \* message the feeder holds while sleeping
    img,          \* img channel: FIFO of capture results
    imgRxAlive,   \* img_rx (owned by the supervisor thread) alive
    imgTxAlive,   \* img_tx (owned by the attach closure) alive
    got,          \* result the supervisor took from img_rx.recv()
    gui,          \* main loop: "running", "unwound" or "aborted"
    windowOpen,   \* the ApplicationWindow is open (application.run blocks)
    curNav,       \* target whose URL the webview loaded last (0: none)
    loadPhase,    \* lifecycle of the webview's current load
    extraFin,     \* repeated Finished events emitted so far (bounded)
    navSent,      \* Navigate messages sent by the supervisor
    navProcessed, \* Navigate messages handled by the main loop
    resDeposited, \* results sent on img_tx
    resReceived,  \* results received by the supervisor
    exitSent,     \* Exit messages sent
    saveCount,    \* calls of save
    lastRecv,     \* last result the supervisor received, with its target
    saveFailedAt, \* target whose save returned Err (0: none)
    errReceived,  \* Err results the supervisor received
    failReported, \* capture-failure messages sent on report_tx
    navLog,       \* targets for which Navigate was sent, in order
    readyCount,   \* PageReady messages handed to the feeder
    fwdCount      \* PageReady messages forwarded by the feeder

vars == <<targets, idx, spc, ctrlc, exhausted, ctl, attached, dq, dsAlive,
          fpc, held, img, imgRxAlive, imgTxAlive, got, gui, windowOpen,
          curNav, loadPhase, extraFin, navSent, navProcessed, resDeposited,
          resReceived, exitSent, saveCount, lastRecv, saveFailedAt,
          errReceived, failReported, navLog, readyCount, fwdCount>>

supVars == <<idx, spc, got>>
cntVars == <<navSent, navProcessed, resDeposited, resReceived, exitSent,
             saveCount, lastRecv, saveFailedAt>>
surfVars == <<curNav, loadPhase, extraFin>>
logVars == <<errReceived, failReported, navLog, readyCount, fwdCount>>

\* Bounds of the model
MaxTargets == 3
MaxExtraFinished == 1

TargetKinds == {"Url", "Other"}
NoMsg == [type |-> "None", arg |-> 0, n |-> 0]
NoResult == [ok |-> FALSE, nav |-> 0, ev |-> 0]

\* enum GuiMessage; arg is the target of a Navigate, and for a PageReady the
\* target the webview was loading when the Finished event was observed;
\* n numbers the PageReady messages in the order the listener creates them
Navigate(i) == [type |-> "Navigate", arg |-> i, n |-> 0]
Exit == [type |-> "Exit", arg |-> 0, n |-> 0]
PageReady(e) == [type |-> "PageReady", arg |-> e, n |-> readyCount + 1]

TargetLists == UNION {[1..n -> TargetKinds] : n \in 0..MaxTargets}

\* The process is running (a fault in a main-loop callback may abort it)
ProcAlive == gui # "aborted"

Init ==
    /\ targets \in TargetLists
    /\ idx = 1
    /\ spc = "check"
    /\ ctrlc = FALSE
    /\ exhausted = FALSE
    /\ ctl = <<>>
    /\ attached = TRUE
    /\ dq = <<>>
    /\ dsAlive = TRUE
    /\ fpc = "recv"
    /\ held = NoMsg
    /\ img = <<>>
    /\ imgRxAlive = TRUE
    /\ imgTxAlive = TRUE
    /\ got = NoResult
    /\ gui = "running"
    /\ windowOpen = TRUE
    /\ curNav = 0
    /\ loadPhase = "idle"
    /\ extraFin = 0
    /\ navSent = 0
    /\ navProcessed = 0
    /\ resDeposited = 0
    /\ resReceived = 0
    /\ exitSent = 0
    /\ saveCount = 0
    /\ lastRecv = [target |-> 0, nav |-> 0, ev |-> 0]
    /\ saveFailedAt = 0
    /\ errReceived = 0
    /\ failReported = 0
    /\ navLog = <<>>
    /\ readyCount = 0
    /\ fwdCount = 0

----------------------------------------------------------------------------
(* Supervisor thread *)

\* Variant of SupCheck: caught_ctrl_c is not consulted at the loop head
SupCheck_IgnoreCancel ==
    /\ ProcAlive
    /\ spc = "check"
    /\ spc' = IF idx > Len(targets) THEN "store" ELSE "dispatch"
    /\ UNCHANGED <<targets, idx, got, ctrlc, exhausted, ctl, attached, dq,
                   dsAlive, fpc, held, img, imgRxAlive, imgTxAlive, gui,
                   windowOpen, surfVars, cntVars>>
    /\ UNCHANGED logVars

\* Variant of SupCheck: the store into targets_exhausted sits inside the loop
SupCheck_StoreInLoop ==
    /\ ProcAlive
    /\ spc = "check"
    /\ spc' = IF idx > Len(targets) \/ ctrlc THEN "store" ELSE "dispatch"
    /\ exhausted' = TRUE
    /\ UNCHANGED <<targets, idx, got, ctrlc, ctl, attached, dq,
                   dsAlive, fpc, held, img, imgRxAlive, imgTxAlive, gui,
                   windowOpen, surfVars, cntVars>>
    /\ UNCHANGED logVars

\* for target in &targets_clone.web_targets { if caught_ctrl_c ... break }
SupCheck ==
    /\ ProcAlive
    /\ spc = "check"
    /\ spc' = IF idx > Len(targets) \/ ctrlc THEN "store" ELSE "dispatch"
    /\ UNCHANGED <<targets, idx, got, ctrlc, exhausted, ctl, attached, dq,
                   dsAlive, fpc, held, img, imgRxAlive, imgTxAlive, gui,
                   windowOpen, surfVars, cntVars>>
    /\ UNCHANGED logVars

\* Variant of SupDispatch: the else arm lacks its continue, so a target that
\* is not a URL falls through to the wait for a result
SupDispatch_NoContinue ==
    /\ ProcAlive
    /\ spc = "dispatch"
    /\ IF targets[idx] = "Url" /\ attached
       THEN /\ ctl' = Append(ctl, Navigate(idx))
            /\ navSent' = navSent + 1
            /\ navLog' = Append(navLog, idx)
       ELSE UNCHANGED <<ctl, navSent, navLog>>
    /\ spc' = "recv"
    /\ UNCHANGED <<targets, idx, got, ctrlc, exhausted, attached, dq,
                   dsAlive, fpc, held, img, imgRxAlive, imgTxAlive, gui,
                   windowOpen, surfVars, navProcessed, resDeposited,
                   resReceived, exitSent, saveCount, lastRecv, saveFailedAt,
                   errReceived, failReported, readyCount, fwdCount>>

\* Variant of SupDispatch: the loop goes on without waiting on img_rx
SupDispatch_NoWait ==
    /\ ProcAlive
    /\ spc = "dispatch"
    /\ IF targets[idx] = "Url" /\ attached
       THEN /\ ctl' = Append(ctl, Navigate(idx))
            /\ navSent' = navSent + 1
       ELSE UNCHANGED <<ctl, navSent>>
    /\ idx' = idx + 1
    /\ spc' = "check"
    /\ UNCHANGED <<targets, got, ctrlc, exhausted, attached, dq, dsAlive,
                   fpc, held, img, imgRxAlive, imgTxAlive, gui, windowOpen,
                   surfVars, navProcessed, resDeposited, resReceived,
                   exitSent, saveCount, lastRecv, saveFailedAt>>
    /\ navLog' = IF navSent' # navSent THEN Append(navLog, idx) ELSE navLog
    /\ UNCHANGED <<errReceived, failReported, readyCount, fwdCount>>

\* if let Target::Url(u) = target { sender.send(Navigate(u)).unwrap() }
\* else { continue }
SupDispatch ==
    /\ ProcAlive
    /\ spc = "dispatch"
    /\ IF targets[idx] = "Url"
       THEN IF attached
            THEN /\ ctl' = Append(ctl, Navigate(idx))
                 /\ navSent' = navSent + 1
                 /\ spc' = "recv"
                 /\ UNCHANGED <<idx, imgRxAlive, img>>
            ELSE /\ spc' = "panicked"
                 /\ imgRxAlive' = FALSE
                 /\ img' = <<>>
                 /\ UNCHANGED <<idx, ctl, navSent>>
       ELSE /\ idx' = idx + 1
            /\ spc' = "check"
            /\ UNCHANGED <<ctl, navSent, imgRxAlive, img>>
    /\ UNCHANGED <<targets, got, ctrlc, exhausted, attached, dq, dsAlive,
                   fpc, held, imgTxAlive, gui, windowOpen, surfVars,
                   navProcessed, resDeposited, resReceived, exitSent,
                   saveCount, lastRecv, saveFailedAt>>
    /\ navLog' = IF navSent' # navSent THEN Append(navLog, idx) ELSE navLog
    /\ UNCHANGED <<errReceived, failReported, readyCount, fwdCount>>

\* Variant of SupRecv: a failed capture ends the loop
SupRecv_ErrBreaks ==
    /\ ProcAlive
    /\ spc = "recv"
    /\ img # <<>> \/ ~imgTxAlive
    /\ IF img # <<>>
       THEN /\ img' = Tail(img)
            /\ resReceived' = resReceived + 1
            /\ lastRecv' = [target |-> idx, nav |-> Head(img).nav,
                            ev |-> Head(img).ev]
            /\ IF Head(img).ok
               THEN /\ got' = Head(img)
                    /\ spc' = "save"
               ELSE /\ spc' = "store"
                    /\ UNCHANGED got
            /\ UNCHANGED idx
       ELSE /\ spc' = "store"
            /\ UNCHANGED <<idx, got, img, resReceived, lastRecv>>
    /\ UNCHANGED <<targets, ctrlc, exhausted, ctl, attached, dq, dsAlive,
                   fpc, held, imgRxAlive, imgTxAlive, gui, windowOpen,
                   surfVars, navSent, navProcessed, resDeposited, exitSent,
                   saveCount, saveFailedAt>>
    /\ errReceived' = IF resReceived' # resReceived /\ ~Head(img).ok
                      THEN errReceived + 1 ELSE errReceived
    /\ UNCHANGED <<failReported, navLog, readyCount, fwdCount>>

\* Variant of SupRecv: the wait polls caught_ctrl_c and gives up when it is set
SupRecv_PollCancel ==
    /\ ProcAlive
    /\ spc = "recv"
    /\ img # <<>> \/ ~imgTxAlive \/ ctrlc
    /\ IF img # <<>> /\ ~ctrlc
       THEN /\ img' = Tail(img)
            /\ resReceived' = resReceived + 1
            /\ lastRecv' = [target |-> idx, nav |-> Head(img).nav,
                            ev |-> Head(img).ev]
            /\ IF Head(img).ok
               THEN /\ got' = Head(img)
                    /\ spc' = "save"
                    /\ UNCHANGED idx
               ELSE /\ idx' = idx + 1
                    /\ spc' = "check"
                    /\ UNCHANGED got
       ELSE /\ spc' = "store"
            /\ UNCHANGED <<idx, got, img, resReceived, lastRecv>>
    /\ UNCHANGED <<targets, ctrlc, exhausted, ctl, attached, dq, dsAlive,
                   fpc, held, imgRxAlive, imgTxAlive, gui, windowOpen,
                   surfVars, navSent, navProcessed, resDeposited, exitSent,
                   saveCount, saveFailedAt>>
    /\ errReceived' = IF resReceived' # resReceived /\ ~Head(img).ok
                      THEN errReceived + 1 ELSE errReceived
    /\ UNCHANGED <<failReported, navLog, readyCount, fwdCount>>

\* match img_rx.recv() { Ok(Ok(img)) .., Ok(Err(e)) .., Err(e) => break }
SupRecv ==
    /\ ProcAlive
    /\ spc = "recv"
    /\ img # <<>> \/ ~imgTxAlive
    /\ IF img # <<>>
       THEN /\ img' = Tail(img)
            /\ resReceived' = resReceived + 1
            /\ lastRecv' = [target |-> idx, nav |-> Head(img).nav,
                            ev |-> Head(img).ev]
            /\ IF Head(img).ok
               THEN /\ got' = Head(img)
                    /\ spc' = "save"
                    /\ UNCHANGED idx
               ELSE /\ idx' = idx + 1
                    /\ spc' = "check"
                    /\ UNCHANGED got
       ELSE /\ spc' = "store"
            /\ UNCHANGED <<idx, got, img, resReceived, lastRecv>>
    /\ UNCHANGED <<targets, ctrlc, exhausted, ctl, attached, dq, dsAlive,
                   fpc, held, imgRxAlive, imgTxAlive, gui, windowOpen,
                   surfVars, navSent, navProcessed, resDeposited, exitSent,
                   saveCount, saveFailedAt>>
    /\ errReceived' = IF resReceived' # resReceived /\ ~Head(img).ok
                      THEN errReceived + 1 ELSE errReceived
    /\ UNCHANGED <<failReported, navLog, readyCount, fwdCount>>

\* Variant of SupSave: a failed save is not fatal, the loop continues
SupSave_ContinueOnError ==
    /\ ProcAlive
    /\ spc = "save"
    /\ saveCount' = saveCount + 1
    /\ got' = NoResult
    /\ idx' = idx + 1
    /\ spc' = "check"
    /\ \E saved \in BOOLEAN :
         saveFailedAt' = IF saved THEN saveFailedAt ELSE idx
    /\ UNCHANGED <<targets, ctrlc, exhausted, ctl, attached, dq, dsAlive,
                   fpc, held, img, imgRxAlive, imgTxAlive, gui, windowOpen,
                   surfVars, navSent, navProcessed, resDeposited,
                   resReceived, exitSent, lastRecv>>
    /\ UNCHANGED logVars

\* save(&target, &opts.output_dir, &img, &report_tx).unwrap()
SupSave ==
    /\ ProcAlive
    /\ spc = "save"
    /\ saveCount' = saveCount + 1
    /\ got' = NoResult
    /\ \E saved \in BOOLEAN :
         IF saved
         THEN /\ idx' = idx + 1
              /\ spc' = "check"
              /\ UNCHANGED <<imgRxAlive, img, saveFailedAt>>
         ELSE /\ spc' = "panicked"
              /\ saveFailedAt' = idx
              /\ imgRxAlive' = FALSE
              /\ img' = <<>>
              /\ UNCHANGED idx
    /\ UNCHANGED <<targets, ctrlc, exhausted, ctl, attached, dq, dsAlive,
                   fpc, held, imgTxAlive, gui, windowOpen, surfVars,
                   navSent, navProcessed, resDeposited, resReceived,
                   exitSent, lastRecv>>
    /\ UNCHANGED logVars

\* Variant of SupStore: the flag is not stored before the close request
SupStore_NoStore ==
    /\ ProcAlive
    /\ spc = "store"
    /\ spc' = "exit"
    /\ UNCHANGED <<targets, idx, got, ctrlc, exhausted, ctl, attached, dq,
                   dsAlive, fpc, held, img, imgRxAlive, imgTxAlive, gui,
                   windowOpen, surfVars, cntVars>>
    /\ UNCHANGED logVars

\* targets_exhausted_clone.store(true, Ordering::SeqCst)
SupStore ==
    /\ ProcAlive
    /\ spc = "store"
    /\ exhausted' = TRUE
    /\ spc' = "exit"
    /\ UNCHANGED <<targets, idx, got, ctrlc, ctl, attached, dq, dsAlive,
                   fpc, held, img, imgRxAlive, imgTxAlive, gui, windowOpen,
                   surfVars, cntVars>>
    /\ UNCHANGED logVars

\* sender.send(GuiMessage::Exit).unwrap()
SupExit ==
    /\ ProcAlive
    /\ spc = "exit"
    /\ IF attached
       THEN /\ ctl' = Append(ctl, Exit)
            /\ exitSent' = exitSent + 1
            /\ spc' = "return"
            /\ UNCHANGED <<imgRxAlive, img>>
       ELSE /\ spc' = "panicked"
            /\ imgRxAlive' = FALSE
            /\ img' = <<>>
            /\ UNCHANGED <<ctl, exitSent>>
    /\ UNCHANGED <<targets, idx, got, ctrlc, exhausted, attached, dq,
                   dsAlive, fpc, held, imgTxAlive, gui, windowOpen,
                   surfVars, navSent, navProcessed, resDeposited,
                   resReceived, saveCount, lastRecv, saveFailedAt>>
    /\ UNCHANGED logVars

\* end of the thread's closure: img_rx and sender are dropped
SupReturn ==
    /\ ProcAlive
    /\ spc = "return"
    /\ spc' = "done"
    /\ imgRxAlive' = FALSE
    /\ img' = <<>>
    /\ UNCHANGED <<targets, idx, got, ctrlc, exhausted, ctl, attached, dq,
                   dsAlive, fpc, held, imgTxAlive, gui, windowOpen,
                   surfVars, cntVars>>
    /\ UNCHANGED logVars

----------------------------------------------------------------------------
(* Main loop: receiver.attach(Some(&main_context), move |msg| match msg ..) *)

GuiCanHandle(t) ==
    /\ ProcAlive
    /\ gui = "running"
    /\ attached
    /\ ctl # <<>>
    /\ Head(ctl).type = t

\* GuiMessage::Navigate(u) => { webview.load_uri(&u); Continue(true) }
GuiNavigate ==
    /\ GuiCanHandle("Navigate")
    /\ ctl' = Tail(ctl)
    /\ curNav' = Head(ctl).arg
    /\ loadPhase' = "requested"
    /\ UNCHANGED extraFin
    /\ navProcessed' = navProcessed + 1
    /\ UNCHANGED <<targets, supVars, ctrlc, exhausted, attached, dq,
                   dsAlive, fpc, held, img, imgRxAlive, imgTxAlive, gui,
                   windowOpen, navSent, resDeposited, resReceived,
                   exitSent, saveCount, lastRecv, saveFailedAt>>
    /\ UNCHANGED logVars

\* GuiMessage::Exit => { window.close(); Continue(false) }
\* Continue(false) removes the source: the closure, with img_tx and the
\* webview (whose load-changed closure owns delayed_gui_sender), is dropped
GuiExit ==
    /\ GuiCanHandle("Exit")
    /\ ctl' = Tail(ctl)
    /\ windowOpen' = FALSE
    /\ attached' = FALSE
    /\ imgTxAlive' = FALSE
    /\ dsAlive' = FALSE
    /\ UNCHANGED <<targets, supVars, ctrlc, exhausted, dq, fpc, held, img,
                   imgRxAlive, gui, surfVars, cntVars>>
    /\ UNCHANGED logVars

\* Variant of GuiPageReady: a failed capture returns without sending a result
GuiPageReady_SilentFailure ==
    /\ GuiCanHandle("PageReady")
    /\ ctl' = Tail(ctl)
    /\ IF imgRxAlive
       THEN /\ \E captured \in BOOLEAN :
                 IF captured
                 THEN /\ img' = Append(img, [ok |-> TRUE, nav |-> curNav,
                                             ev |-> Head(ctl).arg])
                      /\ resDeposited' = resDeposited + 1
                 ELSE UNCHANGED <<img, resDeposited>>
            /\ UNCHANGED gui
       ELSE /\ gui' \in {"unwound", "aborted"}
            /\ UNCHANGED <<img, resDeposited>>
    /\ UNCHANGED <<targets, supVars, ctrlc, exhausted, attached, dq,
                   dsAlive, fpc, held, imgRxAlive, imgTxAlive, windowOpen,
                   surfVars, navSent, navProcessed, resReceived, exitSent,
                   saveCount, lastRecv, saveFailedAt>>
    /\ UNCHANGED logVars

\* GuiMessage::PageReady => { .. img_tx.send(Ok(buf) | Err(..)).unwrap();
\* Continue(true) }.  A panic in the callback unwinds into the C main loop:
\* the process aborts or the unwinding leaves the main loop.
GuiPageReady ==
    /\ GuiCanHandle("PageReady")
    /\ ctl' = Tail(ctl)
    /\ IF imgRxAlive
       THEN /\ \E captured \in BOOLEAN :
                 img' = Append(img, [ok |-> captured, nav |-> curNav,
                                     ev |-> Head(ctl).arg])
            /\ resDeposited' = resDeposited + 1
            /\ UNCHANGED gui
       ELSE /\ gui' \in {"unwound", "aborted"}
            /\ UNCHANGED <<img, resDeposited>>
    /\ UNCHANGED <<targets, supVars, ctrlc, exhausted, attached, dq,
                   dsAlive, fpc, held, imgRxAlive, imgTxAlive, windowOpen,
                   surfVars, navSent, navProcessed, resReceived, exitSent,
                   saveCount, lastRecv, saveFailedAt>>
    /\ UNCHANGED logVars

----------------------------------------------------------------------------
(* Rendering surface and webview.connect_load_changed(move |wv, evt| ..) *)

LoadEvents == {"Started", "Redirected", "Committed", "Finished"}

\* Lifecycle events the webview may emit for its current load; a load may
\* report Finished more than once (e.g. the page navigates itself)
CanEmit(evt) ==
    CASE evt = "Started" -> loadPhase = "requested"
      [] evt = "Redirected" -> loadPhase = "started"
      [] evt = "Committed" -> loadPhase \in {"started", "redirected"}
      [] evt = "Finished" ->
            \/ loadPhase \in {"started", "redirected", "committed"}
            \/ loadPhase = "finished" /\ extraFin < MaxExtraFinished

PhaseAfter(evt) ==
    CASE evt = "Started" -> "started"
      [] evt = "Redirected" -> "redirected"
      [] evt = "Committed" -> "committed"
      [] evt = "Finished" -> "finished"

FeederAlive == fpc \in {"recv", "sleep", "send"}

\* if targets_exhausted.load() { return; }
\* match evt { Finished => delayed_gui_sender.send(PageReady).unwrap(), .. }
LoadChanged(evt) ==
    /\ ProcAlive
    /\ gui = "running"
    /\ windowOpen
    /\ CanEmit(evt)
    /\ loadPhase' = PhaseAfter(evt)
    /\ extraFin' = IF evt = "Finished" /\ loadPhase = "finished"
                   THEN extraFin + 1 ELSE extraFin
    /\ IF ~exhausted /\ evt = "Finished"
       THEN IF FeederAlive
            THEN dq' = Append(dq, PageReady(curNav)) /\ UNCHANGED gui
            ELSE gui' \in {"unwound", "aborted"} /\ UNCHANGED dq
       ELSE UNCHANGED <<dq, gui>>
    /\ UNCHANGED <<targets, supVars, ctrlc, exhausted, ctl, attached,
                   dsAlive, fpc, held, img, imgRxAlive, imgTxAlive,
                   windowOpen, curNav, cntVars>>
    /\ readyCount' = IF dq' # dq THEN readyCount + 1 ELSE readyCount
    /\ UNCHANGED <<errReceived, failReported, navLog, fwdCount>>

----------------------------------------------------------------------------
(* Debounce feeder thread *)

\* Variant of FeederRecv: the message is forwarded without the sleep
FeederRecv_NoSleep ==
    /\ ProcAlive
    /\ fpc = "recv"
    /\ dq # <<>> \/ ~dsAlive
    /\ IF dq # <<>>
       THEN /\ held' = Head(dq)
            /\ dq' = Tail(dq)
            /\ fpc' = "send"
       ELSE /\ fpc' = "ended"
            /\ UNCHANGED <<held, dq>>
    /\ UNCHANGED <<targets, supVars, ctrlc, exhausted, ctl, attached,
                   dsAlive, img, imgRxAlive, imgTxAlive, gui, windowOpen,
                   surfVars, cntVars, logVars>>

\* while let Ok(msg) = delayed_gui_receiver.recv()
FeederRecv ==
    /\ ProcAlive
    /\ fpc = "recv"
    /\ dq # <<>> \/ ~dsAlive
    /\ IF dq # <<>>
       THEN /\ held' = Head(dq)
            /\ dq' = Tail(dq)
            /\ fpc' = "sleep"
       ELSE /\ fpc' = "ended"
            /\ UNCHANGED <<held, dq>>
    /\ UNCHANGED <<targets, supVars, ctrlc, exhausted, ctl, attached,
                   dsAlive, img, imgRxAlive, imgTxAlive, gui, windowOpen,
                   surfVars, cntVars>>
    /\ UNCHANGED logVars

\* thread::sleep(Duration::from_millis(1000))
FeederSleep ==
    /\ ProcAlive
    /\ fpc = "sleep"
    /\ fpc' = "send"
    /\ UNCHANGED <<targets, supVars, ctrlc, exhausted, ctl, attached, dq,
                   dsAlive, held, img, imgRxAlive, imgTxAlive, gui,
                   windowOpen, surfVars, cntVars>>
    /\ UNCHANGED logVars

\* gui_sender.send(msg).unwrap()
FeederSend ==
    /\ ProcAlive
    /\ fpc = "send"
    /\ held' = NoMsg
    /\ IF attached
       THEN ctl' = Append(ctl, held) /\ fpc' = "recv"
       ELSE fpc' = "panicked" /\ UNCHANGED ctl
    /\ UNCHANGED <<targets, supVars, ctrlc, exhausted, attached, dq,
                   dsAlive, img, imgRxAlive, imgTxAlive, gui, windowOpen,
                   surfVars, cntVars>>
    /\ fwdCount' = IF attached THEN fwdCount + 1 ELSE fwdCount
    /\ UNCHANGED <<errReceived, failReported, navLog, readyCount>>

----------------------------------------------------------------------------
(* Environment: the process-wide signal handler sets caught_ctrl_c *)

CtrlC ==
    /\ ProcAlive
    /\ ~ctrlc
    /\ ctrlc' = TRUE
    /\ UNCHANGED <<targets, supVars, exhausted, ctl, attached, dq, dsAlive,
                   fpc, held, img, imgRxAlive, imgTxAlive, gui, windowOpen,
                   surfVars, cntVars>>
    /\ UNCHANGED logVars

----------------------------------------------------------------------------

Next ==
    \/ SupCheck
    \/ SupDispatch
    \/ SupRecv
    \/ SupSave
    \/ SupStore
    \/ SupExit
    \/ SupReturn
    \/ GuiNavigate
    \/ GuiExit
    \/ GuiPageReady
    \/ \E evt \in LoadEvents : LoadChanged(evt)
    \/ FeederRecv
    \/ FeederSleep
    \/ FeederSend
    \/ CtrlC

Spec == Init /\ [][Next]_vars

\* The first Finished event of a load: the surface reports every load it
\* was given as finished, sooner or later
FirstFinished ==
    /\ loadPhase # "finished"
    /\ \E evt \in LoadEvents : LoadChanged(evt)

\* Threads and the main loop are scheduled fairly
FairSpec ==
    /\ Spec
    /\ WF_vars(SupCheck)
    /\ WF_vars(SupDispatch)
    /\ WF_vars(SupRecv)
    /\ WF_vars(SupSave)
    /\ WF_vars(SupStore)
    /\ WF_vars(SupExit)
    /\ WF_vars(SupReturn)
    /\ WF_vars(GuiNavigate)
    /\ WF_vars(GuiExit)
    /\ WF_vars(GuiPageReady)
    /\ WF_vars(FirstFinished)
    /\ WF_vars(FeederRecv)
    /\ WF_vars(FeederSleep)
    /\ WF_vars(FeederSend)

----------------------------------------------------------------------------
(* The result channel disconnected in mid-run.  img_tx is owned by the      *)
(* closure given to receiver.attach, so it is dropped exactly when that     *)
(* source is removed from the main context, together with the receiver.     *)

SourceDestroyed ==
    /\ ProcAlive
    /\ gui = "running"
    /\ attached
    /\ attached' = FALSE
    /\ imgTxAlive' = FALSE
    /\ UNCHANGED <<targets, supVars, ctrlc, exhausted, ctl, dq, dsAlive,
                   fpc, held, img, imgRxAlive, gui, windowOpen, surfVars,
                   cntVars, logVars>>

DisconnectNext ==
    \/ Next
    \/ SourceDestroyed

DisconnectSpec == Init /\ [][DisconnectNext]_vars

----------------------------------------------------------------------------
(* Properties *)

NumOf(t, q) == Cardinality({i \in DOMAIN q : q[i].type = t})

\* C1: at most one Navigate is outstanding: Navigate sends and result
\* receipts of the supervisor alternate, i.e. it sends a Navigate only when
\* every earlier Navigate was followed by a result it received.
C1_AtMostOneNavigateOutstanding ==
    /\ navSent - resReceived \in {0, 1}
    /\ spc \in {"check", "dispatch"} => navSent = resReceived

C1_Witness == navSent = 2 /\ resReceived = 1 /\ spc = "recv"

\* C2: once targets_exhausted is true, no PageReady is enqueued onto the
\* control channel any more.
C2_NoReadyForwardedAfterExhausted ==
    [][exhausted => NumOf("PageReady", ctl') <= NumOf("PageReady", ctl)]_vars

\* C3: once targets_exhausted is true, the supervisor sends no Navigate.
C3_NoNavigateAfterExhausted ==
    [][exhausted => navSent' = navSent]_vars

C3_Witness == exhausted /\ navSent >= 1 /\ exitSent = 1

\* C4: the results deposited never exceed the Navigates processed; the result
\* channel holds at most one result, and only while a Navigate is outstanding.
C4_OneResultPerNavigate ==
    /\ resDeposited <= navProcessed
    /\ Len(img) <= 1
    /\ img # <<>> => navSent > resReceived

\* C5: under fair scheduling, with every load reported finished, a supervisor
\* waiting in recv for the answer to its Navigate does not stay blocked: it
\* leaves the wait, and only by receiving a result or by seeing the result
\* channel disconnected.
C5_NavigateEventuallyAnswered ==
    /\ (spc = "recv") ~> (spc # "recv")
    /\ [][(spc = "recv" /\ spc' # "recv")
            => \/ resReceived' = resReceived + 1
               \/ spc' = "store" /\ ~imgTxAlive]_vars

C5_Witness == navSent = 2 /\ resReceived = 2

\* C6: the result the supervisor consumes for target i comes from a capture
\* made while the webview showed target i, triggered by a Finished event
\* observed while the webview showed target i.
C6_ResultBelongsToTarget ==
    lastRecv.target # 0 =>
        /\ lastRecv.nav = lastRecv.target
        /\ lastRecv.ev = lastRecv.target

\* C7: targets_exhausted is true whenever Exit has been enqueued, and no
\* load-changed event handled after that hands a PageReady to the feeder.
C7_ExhaustedBeforeExit ==
    /\ [](exitSent > 0 => exhausted)
    /\ [][exitSent > 0 => Len(dq') <= Len(dq)]_vars

C7_Witness ==
    /\ exitSent = 1
    /\ NumOf("Exit", ctl) = 1
    /\ windowOpen
    /\ CanEmit("Finished")

\* C8: under fair scheduling, unless a save fails, the run ends with
\* targets_exhausted true, Exit sent exactly once and processed by the main
\* loop (window closed, receiver detached).
C8_RunCompletes ==
    <>(\/ saveFailedAt # 0
       \/ /\ spc \in {"return", "done"}
          /\ exhausted
          /\ exitSent = 1
          /\ ~windowOpen
          /\ ~attached)

\* C9: after save failed for a target, no Navigate is sent and save is not
\* called again.
C9_NothingAfterSaveFailure ==
    [][saveFailedAt # 0 => (navSent' = navSent /\ saveCount' = saveCount)]_vars

C9_Witness ==
    /\ saveFailedAt # 0
    /\ saveFailedAt < Len(targets)
    /\ targets[saveFailedAt + 1] = "Url"
    /\ ~ctrlc

\* C10: when save fails the run ends: web_worker stops waiting in
\* application.run (window closed or main loop left).
C10_SaveFailureEndsRun ==
    (saveFailedAt # 0) ~> (~windowOpen \/ gui # "running")

\* C11: when caught_ctrl_c is set at the head of the loop, the supervisor
\* leaves the loop: no Navigate and no save follow, and it goes on to store
\* targets_exhausted and to send Exit.
C11_CancelSkipsRemaining ==
    /\ [][(ctrlc /\ spc = "check") => spc' \in {"check", "store"}]_vars
    /\ [][(ctrlc /\ spc \in {"store", "exit", "return", "done"})
            => (navSent' = navSent /\ saveCount' = saveCount)]_vars
    /\ (ctrlc /\ spc = "check") ~> (exhausted /\ exitSent = 1)

C11_Witness ==
    /\ ctrlc
    /\ idx = 2
    /\ Len(targets) = 2
    /\ targets[2] = "Url"
    /\ navSent = 1
    /\ saveCount = 1
    /\ exhausted
    /\ exitSent = 1

\* C12: caught_ctrl_c set while a Navigate is outstanding does not end the
\* wait: the supervisor stays in recv until it has a result, saves an Ok one,
\* and stores targets_exhausted only with every Navigate answered.
C12_CancelWaitsForInFlight ==
    /\ [](exhausted => (navSent = resReceived /\ got = NoResult))
    /\ [][(ctrlc /\ spc = "recv") => spc' \in {"recv", "save", "check"}]_vars
    /\ [][(ctrlc /\ spc = "recv" /\ spc' # "recv")
            => (resReceived' = resReceived + 1
                /\ (Head(img).ok <=> spc' = "save"))]_vars
    /\ [][(ctrlc /\ spc = "save" /\ spc' # "save")
            => saveCount' = saveCount + 1]_vars

C12_Witness == ctrlc /\ spc = "save" /\ got.ok /\ ~exhausted

\* C13: on receiving Err for a target the supervisor does not call save and
\* moves to the head of the loop for the next target; under fair scheduling
\* the run then still reaches the store of targets_exhausted and the Exit
\* send, unless a later save fails.
C13_CaptureFailureNotFatal ==
    /\ [][(spc = "recv" /\ img # <<>> /\ ~Head(img).ok /\ spc' # "recv")
            => (spc' = "check" /\ idx' = idx + 1
                /\ saveCount' = saveCount)]_vars
    /\ (spc = "recv" /\ img # <<>> /\ ~Head(img).ok)
          ~> ((exhausted /\ exitSent = 1) \/ saveFailedAt # 0)

C13_Witness ==
    /\ idx = 2
    /\ spc = "recv"
    /\ navSent = 2
    /\ resReceived = 1
    /\ saveCount = 0
    /\ ~ctrlc

\* C14: every capture failure the supervisor received has been reported on
\* report_tx by the time the loop is over.
C14_FailuresReported ==
    spc \in {"store", "exit", "return", "done"} => failReported = errReceived

\* C15: a supervisor that left the loop because img_rx.recv() reported the
\* disconnection (a Navigate still unanswered) performs the close request
\* without a fault.
C15_DisconnectHandledGracefully ==
    [][(spc = "exit" /\ navSent > resReceived) => spc' # "panicked"]_vars

\* C16: no handler run by the main loop (load-changed listener, PageReady
\* capture) ever panics: each send it performs finds its receiver alive.
C16_CallbacksNeverFault == gui = "running"

\* C19: the main loop deposits no result when it processes a PageReady while
\* targets_exhausted is true.
C19_NoCaptureWhenExhausted ==
    [][exhausted => resDeposited' = resDeposited]_vars

\* C20: once the main loop has processed Exit and detached the receiver, the
\* feeder holds no pending PageReady and its send never fails.
C20_NoWorkPastTeardown ==
    /\ ~attached => (dq = <<>> /\ held = NoMsg)
    /\ fpc # "panicked"

\* The URL targets among the first k targets, in list order
RECURSIVE UrlsUpTo(_)
UrlsUpTo(k) ==
    IF k = 0 THEN <<>>
    ELSE IF targets[k] = "Url" THEN Append(UrlsUpTo(k - 1), k)
    ELSE UrlsUpTo(k - 1)

\* The last target the loop has gone past its dispatch step for
Dispatched ==
    IF spc \in {"recv", "save"} \/ (spc = "panicked" /\ saveFailedAt = idx)
    THEN idx ELSE idx - 1

\* C17: a target that is not a URL gets no Navigate and no wait on the result
\* channel, and the Navigates sent are exactly the URL targets the loop has
\* reached, in list order, each once.
C17_NonUrlSkipped ==
    /\ [](navLog = UrlsUpTo(Dispatched))
    /\ [][(spc = "dispatch" /\ targets[idx] = "Other")
            => (spc' \in {"dispatch", "check"} /\ navSent' = navSent)]_vars

C17_Witness ==
    /\ Len(targets) = 3
    /\ targets[1] = "Url" /\ targets[2] = "Other" /\ targets[3] = "Url"
    /\ navLog = <<1, 3>>
    /\ spc = "done"
    /\ ~ctrlc

\* C18: the feeder forwards a PageReady only from the position after its
\* sleep, which it reaches only through the sleep; it takes the next signal
\* from its queue only when it holds none; and the signals reach the control
\* channel in the order the listener enqueued them, none skipped.
C18_DebounceOrdering ==
    /\ [][NumOf("PageReady", ctl') > NumOf("PageReady", ctl)
            => (fpc = "send" /\ ctl' = Append(ctl, held)
                /\ held.n = fwdCount + 1)]_vars
    /\ [][(fpc' = "send" /\ fpc # "send") => fpc = "sleep"]_vars
    /\ [][Len(dq') < Len(dq)
            => (fpc = "recv" /\ held = NoMsg /\ held' = Head(dq)
                /\ fpc' = "sleep")]_vars
    /\ [](held # NoMsg => fpc \in {"sleep", "send"})

C18_Witness ==
    /\ fpc = "send"
    /\ held.n = 1
    /\ Len(dq) = 1
    /\ dq[1].n = 2

====
